---- MODULE Spec2Model ----
(***************************************************************************)
(* Model of fiftyone/utils/eval/classification.py: one call of             *)
(* evaluate_classifications() on a sample collection, followed by queries  *)
(* of the returned results object.                                         *)
(*                                                                         *)
(* Conventions.  A Python label is a string; Python's None in a label      *)
(* position is the string None below (distinct from every label and from   *)
(* the default missing sentinel "none").  Optional numbers, booleans and   *)
(* objects are tuples: <<>> is None and <<v>> is the value v.              *)
(* Confidences read from the collection are integers in percent.          *)
(***************************************************************************)
EXTENDS Integers, Sequences, FiniteSets, TLC

\* ---------------------------------------------------------------- bounds
MaxSamples == 2
MaxK == 2

\* ------------------------------------------------------- program constants
DefaultK == 5

\* ----------------------------------------------------------------- values
None == "<None>"
NoneOpt == <<>>
Some(v) == <<v>>

Labels == {"cat", "dog"}
DefaultMissing == "none"
\* Python orders strings lexicographically; LabelOrder lists every string
\* of the model in that order.
LabelOrder == <<"cat", "dog", "none">>
Rank(l) == CHOOSE i \in 1..Len(LabelOrder) : LabelOrder[i] = l

PredField == "predictions"
GtField == "ground_truth"
EvalKey == "eval"

\* ------------------------------------------------------------ input domains
\* One sample of the collection: the ground truth label, the predicted
\* label, the predicted confidence and the predicted logits.
LabelPairs == (Labels \cup {None}) \X (Labels \cup {None})
Sample(gt, pred, conf, logits) ==
    [gt |-> gt, pred |-> pred, conf |-> conf, logits |-> logits]
SampleKinds ==
    {Sample(lp[1], lp[2], NoneOpt, NoneOpt) : lp \in LabelPairs}
    \cup {Sample(lp[1], lp[2], Some(40), Some(<<0, 1>>)) : lp \in LabelPairs}
    \cup {Sample("cat", "dog", Some(40), Some(<<1, 1>>)),
          Sample("cat", "cat", Some(40), Some(<<1, 1>>))}
Collections == UNION {[1..n -> SampleKinds] : n \in 0..MaxSamples}

KValues == 1..MaxK
SimpleEvaluationConfig == [method |-> "simple"]
BinaryEvaluationConfig == [method |-> "binary"]
TopKEvaluationConfig(k) == [method |-> "top-k", k |-> k]
Configs == {SimpleEvaluationConfig, BinaryEvaluationConfig}
               \cup {TopKEvaluationConfig(k) : k \in KValues}
Methods == {None, "simple", "binary", "top-k", "bogus"}

\* (config, method, kwargs) of a call.  A k keyword is passed only where
\* the config class that receives it is TopKEvaluationConfig, or where an
\* explicit config makes the keywords unused.
MethodArgs ==
    {[config |-> NoneOpt, method |-> m, kwargs |-> NoneOpt] :
        m \in {"simple", "binary", "top-k"}}
    \cup {[config |-> NoneOpt, method |-> "top-k", kwargs |-> Some(k)] :
            k \in KValues}
ConfigArgs ==
    MethodArgs
    \cup {[config |-> NoneOpt, method |-> m, kwargs |-> NoneOpt] :
            m \in {None, "bogus"}}
    \cup {[config |-> Some(c), method |-> m, kwargs |-> kw] :
            c \in Configs, m \in {"simple", "bogus"},
            kw \in {NoneOpt, Some(1)}}
ClassLists == {NoneOpt, Some(<<"cat", "dog">>), Some(<<"dog", "cat">>),
               Some(<<"cat">>)}
MissingValues == {DefaultMissing, "cat"}
EvalKeys == {None, EvalKey}
\* the classes argument of report() and metrics()
QueryClasses == {NoneOpt, Some(<<"cat">>)}
CallArgs(configArgs) ==
    {[config |-> ca.config, method |-> ca.method, kwargs |-> ca.kwargs,
      eval_key |-> ek, classes |-> cl, missing |-> mi] :
        ca \in configArgs, ek \in EvalKeys, cl \in ClassLists,
        mi \in MissingValues}
\* The calls explored: every collection under every method, and every way
\* of naming the config on the collections of at most one sample.
Inputs ==
    (Collections \X CallArgs(MethodArgs))
    \cup ({c \in Collections : Len(c) <= 1} \X CallArgs(ConfigArgs))

\* ------------------------------------------------------------ pure helpers
Range(s) == {s[i] : i \in 1..Len(s)}

RECURSIVE SortedListReversed(_)
\* sorted(set of strings, reverse=True)
SortedListReversed(S) ==
    IF S = {} THEN <<>>
    ELSE LET m == CHOOSE x \in S : \A y \in S : Rank(x) >= Rank(y)
         IN <<m>> \o SortedListReversed(S \ {m})

RECURSIVE SortedList(_)
\* sorted(set of strings)
SortedList(S) ==
    IF S = {} THEN <<>>
    ELSE LET m == CHOOSE x \in S : \A y \in S : Rank(x) <= Rank(y)
         IN <<m>> \o SortedList(S \ {m})

\* _clean_labels without the substitution of the missing label
CleanLabelsKeepNone(y, missing) ==
    [yclean |-> y,
     found_missing |-> \E i \in 1..Len(y) : y[i] = None]

\* _clean_labels(y, missing): (yclean, found_missing)
CleanLabels(y, missing) ==
    [yclean |-> [i \in 1..Len(y) |-> IF y[i] = None THEN missing ELSE y[i]],
     found_missing |-> \E i \in 1..Len(y) : y[i] = None]

\* _parse_labels appending the sentinel whenever a label was missing
ParseLabelsAlwaysAppend(ytrue, ypred, classes, missing) ==
    LET base == IF classes = NoneOpt
                THEN SortedList((Range(ytrue) \cup Range(ypred)) \ {None})
                ELSE classes[1]
        ct == CleanLabels(ytrue, missing)
        cp == CleanLabels(ypred, missing)
        found_missing == ct.found_missing \/ cp.found_missing
    IN [ytrue |-> ct.yclean,
        ypred |-> cp.yclean,
        classes |-> IF found_missing THEN Append(base, missing) ELSE base]

\* _parse_labels(ytrue, ypred, classes, missing); classes is NoneOpt or
\* Some(list)
ParseLabels(ytrue, ypred, classes, missing) ==
    LET base == IF classes = NoneOpt
                THEN SortedList((Range(ytrue) \cup Range(ypred)) \ {None})
                ELSE classes[1]
        ct == CleanLabels(ytrue, missing)
        cp == CleanLabels(ypred, missing)
        found_missing == ct.found_missing \/ cp.found_missing
    IN [ytrue |-> ct.yclean,
        ypred |-> cp.yclean,
        classes |-> IF found_missing /\ missing \notin Range(base)
                    THEN Append(base, missing)
                    ELSE base]

\* _to_binary_scores with an absent confidence taken as 1.0
ToBinaryScoresDefaultOne(y, confs, pos_label) ==
    [i \in 1..Len(y) |->
        LET conf == IF confs[i] = NoneOpt THEN 100 ELSE confs[i][1]
        IN IF y[i] = pos_label THEN conf ELSE 100 - conf]

\* _to_binary_scores(y, confs, pos_label), in percent
ToBinaryScores(y, confs, pos_label) ==
    [i \in 1..Len(y) |->
        LET conf == IF confs[i] = NoneOpt THEN 0 ELSE confs[i][1]
        IN IF y[i] = pos_label THEN conf ELSE 100 - conf]

\* ClassificationResults.__init__
ClassificationResults(ytrue, ypred, confs, classes, missing) ==
    LET p == ParseLabels(ytrue, ypred, classes, missing)
    IN [kind |-> "ClassificationResults",
        ytrue |-> p.ytrue, ypred |-> p.ypred, confs |-> confs,
        classes |-> p.classes, missing |-> missing,
        pos_label |-> None, scores |-> <<>>]

\* BinaryClassificationResults.__init__; classes is a list of length 2
BinaryClassificationResults(ytrue, ypred, confs, classes) ==
    LET r == ClassificationResults(ytrue, ypred, confs, Some(classes), classes[1])
    IN [r EXCEPT !.kind = "BinaryClassificationResults",
                 !.pos_label = classes[2],
                 !.scores = ToBinaryScores(ypred, confs, classes[2])]

\* _parse_config with the method dispatched before the explicit config is
\* looked at
ParseConfigMethodFirst(config, method, kwargs) ==
    LET m == IF method = None THEN "simple" ELSE method
    IN IF m = "simple" THEN [ok |-> TRUE, config |-> SimpleEvaluationConfig]
       ELSE IF m = "binary" THEN [ok |-> TRUE, config |-> BinaryEvaluationConfig]
       ELSE IF m = "top-k"
            THEN [ok |-> TRUE,
                  config |-> TopKEvaluationConfig(
                      IF kwargs = NoneOpt THEN DefaultK ELSE kwargs[1])]
       ELSE IF config # NoneOpt THEN [ok |-> TRUE, config |-> config[1]]
       ELSE [ok |-> FALSE,
             error |-> [type |-> "ValueError",
                        msg |-> "Unsupported evaluation method"]]

\* _parse_config(config, method, **kwargs)
ParseConfig(config, method, kwargs) ==
    LET m == IF method = None THEN "simple" ELSE method
    IN IF config # NoneOpt THEN [ok |-> TRUE, config |-> config[1]]
       ELSE IF m = "simple" THEN [ok |-> TRUE, config |-> SimpleEvaluationConfig]
       ELSE IF m = "binary" THEN [ok |-> TRUE, config |-> BinaryEvaluationConfig]
       ELSE IF m = "top-k"
            THEN [ok |-> TRUE,
                  config |-> TopKEvaluationConfig(
                      IF kwargs = NoneOpt THEN DefaultK ELSE kwargs[1])]
       ELSE [ok |-> FALSE,
             error |-> [type |-> "ValueError",
                        msg |-> "Unsupported evaluation method"]]

\* targets_map = {label: idx for idx, label in enumerate(classes)}
TargetsMap(classes) ==
    [l \in Range(classes) |->
        CHOOSE i \in 1..Len(classes) :
            classes[i] = l /\ \A j \in 1..Len(classes) : classes[j] = l => j <= i]

\* np.argpartition(_logits, k)[:k]: k indices of the smallest logits
BottomKChoices(logits, k) ==
    {S \in SUBSET (1..Len(logits)) :
        /\ Cardinality(S) = k
        /\ \A i \in S : \A j \in (1..Len(logits)) \ S : logits[i] <= logits[j]}

\* np.argpartition(_logits, -k)[-k:] for 1 <= k <= len(_logits): some k
\* indices none of which has a smaller logit than an index left out.  Which
\* of several equal logits is taken is not specified by numpy.
TopKChoices(logits, k) ==
    {S \in SUBSET (1..Len(logits)) :
        /\ Cardinality(S) = k
        /\ \A i \in S : \A j \in (1..Len(logits)) \ S : logits[i] >= logits[j]}

\* np.exp(logit) / np.sum(np.exp(_logits)), kept symbolic
Softmax(logit, logits) == [exp_of |-> logit, over |-> logits]

\* accuracy_score with normalize=False: the count of matches
AccuracyScoreUnnormalized(ytrue, ypred) ==
    [correct |-> Cardinality({i \in 1..Len(ytrue) : ytrue[i] = ypred[i]}),
     total |-> 1]

\* skm.accuracy_score(ytrue, ypred, normalize=True), as a fraction
AccuracyScore(ytrue, ypred) ==
    [correct |-> Cardinality({i \in 1..Len(ytrue) : ytrue[i] = ypred[i]}),
     total |-> Len(ytrue)]

\* ClassificationResults._get_labels(classes)
GetLabels(res, classes) == IF classes # NoneOpt THEN classes[1] ELSE res.classes

\* The counts behind precision (tp / predicted) and recall (tp / support)
\* of one label, as sklearn derives them from the two arrays.
LabelCounts(ytrue, ypred, l) ==
    [tp |-> Cardinality({i \in 1..Len(ytrue) : ytrue[i] = l /\ ypred[i] = l}),
     predicted |-> Cardinality({i \in 1..Len(ypred) : ypred[i] = l}),
     support |-> Cardinality({i \in 1..Len(ytrue) : ytrue[i] = l})]

\* skm.classification_report(ytrue, ypred, labels=labels, output_dict=True):
\* one row per label, in the order of labels
ClassificationReport(ytrue, ypred, labels) ==
    [j \in 1..Len(labels) |->
        [label |-> labels[j], counts |-> LabelCounts(ytrue, ypred, labels[j])]]

\* skm.precision_recall_fscore_support(..., average="micro", labels=labels):
\* the counts summed over the labels
MicroCounts(ytrue, ypred, labels) ==
    [tp |-> Cardinality({i \in 1..Len(ytrue) :
                ytrue[i] = ypred[i] /\ ytrue[i] \in Range(labels)}),
     predicted |-> Cardinality({i \in 1..Len(ypred) :
                ypred[i] \in Range(labels)}),
     support |-> Cardinality({i \in 1..Len(ytrue) :
                ytrue[i] \in Range(labels)})]

\* ------------------------------------------------------------------ state
VARIABLES
    samples,      \* the collection: a sequence of samples
    call,         \* the arguments of evaluate_classifications
    pc,           \* position in evaluate_classifications
    config,       \* the local `config` after _parse_config
    ypred,        \* top-k: the predicted labels, overwritten in the loop
    confs,        \* top-k: confidences computed so far
    correct,      \* top-k: correctness flags computed so far
    warnings,     \* number of warnings.warn() calls
    results,      \* the returned results object
    eval_field,   \* the per-sample field stored under eval_key
    evaluations,  \* the evaluation info saved on the collection
    oplog,        \* operations performed on the collection, in order
    error,        \* the exception raised, if any
    metrics,      \* the result of the last results.metrics()
    report        \* the result of the last results.report()

vars == <<samples, call, pc, config, ypred, confs, correct, warnings, results,
          eval_field, evaluations, oplog, error, metrics, report>>

Init ==
    /\ \E inp \in Inputs : samples = inp[1] /\ call = inp[2]
    /\ pc = "parse_config"
    /\ config = NoneOpt
    /\ ypred = <<>>
    /\ confs = <<>>
    /\ correct = <<>>
    /\ warnings = 0
    /\ results = NoneOpt
    /\ eval_field = NoneOpt
    /\ evaluations = NoneOpt
    /\ oplog = <<>>
    /\ error = NoneOpt
    /\ metrics = NoneOpt
    /\ report = NoneOpt

\* samples.aggregate(foa.Values(path)): one value per sample, in order
Values(path) == [i \in 1..Len(samples) |-> samples[i][path]]

\* EvaluationInfo(eval_key, pred_field, gt_field, config)
EvalInfo ==
    [eval_key |-> call.eval_key, pred_field |-> PredField,
     gt_field |-> GtField, config |-> config[1]]

Raise(type, msg) ==
    /\ pc' = "raised"
    /\ error' = Some([type |-> type, msg |-> msg])

\* evaluate_classifications, lines 74-77
ParseConfigStep ==
    /\ pc = "parse_config"
    /\ LET r == ParseConfig(call.config, call.method, call.kwargs)
       IN IF r.ok
          THEN /\ config' = Some(r.config)
               /\ pc' = "evaluate_samples"
               /\ UNCHANGED error
          ELSE /\ Raise(r.error.type, r.error.msg)
               /\ UNCHANGED config
    /\ UNCHANGED <<samples, call, ypred, confs, correct, warnings, results,
                   eval_field, evaluations, oplog, metrics, report>>

Method == config[1].method

\* samples._add_field_if_necessary(eval_key, ftype) and the write of one
\* value per sample under eval_key
WriteField(ftype, setter, values) ==
    /\ eval_field' = Some([ftype |-> ftype, values |-> values])
    /\ oplog' = oplog \o <<"aggregate", "add_field", setter>>

SkipField ==
    /\ oplog' = Append(oplog, "aggregate")
    /\ UNCHANGED eval_field

\* SimpleEvaluation.evaluate_samples
SimpleEvaluateSamples ==
    /\ pc = "evaluate_samples"
    /\ Method = "simple"
    /\ LET ytrue == Values("gt")
           yp == Values("pred")
           cf == Values("conf")
       IN /\ IF call.eval_key # None
             THEN WriteField("BooleanField", "set_field",
                     [i \in 1..Len(samples) |->
                         Some(samples[i].gt = samples[i].pred)])
             ELSE SkipField
          /\ results' = Some(ClassificationResults(
                             ytrue, yp, cf, call.classes, call.missing))
    /\ pc' = "save_info"
    /\ UNCHANGED <<samples, call, config, ypred, confs, correct, warnings,
                   evaluations, error, metrics, report>>

\* the switch with the codes of the two kinds of error exchanged
BinaryStatusSwapped(gt, pred, pos_label) ==
    IF gt = pos_label /\ pred = pos_label THEN "TP"
    ELSE IF gt = pos_label /\ pred # pos_label THEN "FP"
    ELSE IF gt # pos_label /\ pred # pos_label THEN "TN"
    ELSE IF gt # pos_label /\ pred = pos_label THEN "FN"
    ELSE None

\* F().switch({...}) of BinaryEvaluation.evaluate_samples for one sample
BinaryStatus(gt, pred, pos_label) ==
    IF gt = pos_label /\ pred = pos_label THEN "TP"
    ELSE IF gt = pos_label /\ pred # pos_label THEN "FN"
    ELSE IF gt # pos_label /\ pred # pos_label THEN "TN"
    ELSE IF gt # pos_label /\ pred = pos_label THEN "FP"
    ELSE None

\* BinaryEvaluation.evaluate_samples
BinaryEvaluateSamples ==
    /\ pc = "evaluate_samples"
    /\ Method = "binary"
    /\ IF call.classes = NoneOpt \/ Len(call.classes[1]) # 2
       THEN /\ Raise("ValueError", "You must provide the (neg_label, pos_label) labels")
            /\ UNCHANGED <<results, eval_field, oplog>>
       ELSE LET classes == call.classes[1]
                pos_label == classes[Len(classes)]
                ytrue == Values("gt")
                yp == Values("pred")
                cf == Values("conf")
            IN /\ IF call.eval_key # None
                  THEN WriteField("StringField", "set_field",
                          [i \in 1..Len(samples) |->
                              BinaryStatus(samples[i].gt, samples[i].pred,
                                           pos_label)])
                  ELSE SkipField
               /\ results' = Some(BinaryClassificationResults(
                                  ytrue, yp, cf, classes))
               /\ pc' = "save_info"
               /\ UNCHANGED error
    /\ UNCHANGED <<samples, call, config, ypred, confs, correct, warnings,
                   evaluations, metrics, report>>

\* the top-k entry with the class list checked after the aggregation
TopKEvaluateSamplesLateCheck ==
    /\ pc = "evaluate_samples"
    /\ Method = "top-k"
    /\ ypred' = Values("pred")
    /\ oplog' = Append(oplog, "aggregate")
    /\ IF call.classes = NoneOpt
       THEN Raise("ValueError", "You must provide the list of classes")
       ELSE pc' = "topk_loop" /\ UNCHANGED error
    /\ UNCHANGED <<samples, call, config, confs, correct, warnings, results,
                   eval_field, evaluations, metrics, report>>

\* TopKEvaluation.evaluate_samples, lines 224-243
TopKEvaluateSamples ==
    /\ pc = "evaluate_samples"
    /\ Method = "top-k"
    /\ IF call.classes = NoneOpt
       THEN /\ Raise("ValueError", "You must provide the list of classes")
            /\ UNCHANGED <<ypred, oplog>>
       ELSE /\ ypred' = Values("pred")
            /\ oplog' = Append(oplog, "aggregate")
            /\ pc' = "topk_loop"
            /\ UNCHANGED error
    /\ UNCHANGED <<samples, call, config, confs, correct, warnings, results,
                   eval_field, evaluations, metrics, report>>

\* one iteration of the loop of TopKEvaluation.evaluate_samples, lines 245-272
TopKSample ==
    /\ pc = "topk_loop"
    /\ Len(confs) < Len(samples)
    /\ LET idx == Len(confs) + 1
           k == config[1].k
           _ytrue == samples[idx].gt
           _logits == samples[idx].logits
           targets_map == TargetsMap(call.classes[1])
       IN IF _logits = NoneOpt
          THEN /\ ypred' = [ypred EXCEPT ![idx] = None]
               /\ confs' = Append(confs, NoneOpt)
               /\ correct' = Append(correct, NoneOpt)
               /\ warnings' = warnings + 1
               /\ UNCHANGED <<pc, error>>
          ELSE IF _ytrue \notin DOMAIN targets_map
          THEN /\ Raise("KeyError", "targets_map[_ytrue]")
               /\ UNCHANGED <<ypred, confs, correct, warnings>>
          ELSE IF k > Len(_logits[1])
          THEN /\ Raise("ValueError", "kth out of bounds")
               /\ UNCHANGED <<ypred, confs, correct, warnings>>
          ELSE \E top_k \in TopKChoices(_logits[1], k) :
                 LET target == targets_map[_ytrue]
                 IN IF target \in top_k
                    THEN /\ ypred' = [ypred EXCEPT ![idx] = _ytrue]
                         /\ confs' = Append(confs,
                               Some(Softmax(_logits[1][target], _logits[1])))
                         /\ correct' = Append(correct, Some(TRUE))
                         /\ UNCHANGED <<pc, error, warnings>>
                    ELSE IF ypred[idx] \notin DOMAIN targets_map
                    THEN /\ Raise("KeyError", "targets_map[ypred[idx]]")
                         /\ UNCHANGED <<ypred, confs, correct, warnings>>
                    ELSE /\ confs' = Append(confs,
                               Some(Softmax(_logits[1][targets_map[ypred[idx]]],
                                            _logits[1])))
                         /\ correct' = Append(correct, Some(FALSE))
                         /\ UNCHANGED <<pc, error, warnings, ypred>>
    /\ UNCHANGED <<samples, call, config, results, eval_field, evaluations,
                   oplog, metrics, report>>

\* TopKEvaluation.evaluate_samples, lines 274-280
TopKFinish ==
    /\ pc = "topk_loop"
    /\ Len(confs) = Len(samples)
    /\ IF call.eval_key # None
       THEN /\ eval_field' = Some([ftype |-> "BooleanField", values |-> correct])
            /\ oplog' = oplog \o <<"add_field", "set_values">>
       ELSE UNCHANGED <<eval_field, oplog>>
    /\ results' = Some(ClassificationResults(
                       Values("gt"), ypred, confs, call.classes, call.missing))
    /\ pc' = "save_info"
    /\ UNCHANGED <<samples, call, config, ypred, confs, correct, warnings,
                   evaluations, error, metrics, report>>

\* the end of evaluate_classifications without the test of eval_key
SaveInfoAlways ==
    /\ pc = "save_info"
    /\ evaluations' = Some(EvalInfo)
    /\ oplog' = Append(oplog, "save_evaluation_info")
    /\ pc' = "returned"
    /\ UNCHANGED <<samples, call, config, ypred, confs, correct, warnings,
                   results, eval_field, error, metrics, report>>

\* evaluate_classifications, lines 88-91
SaveInfoAndReturn ==
    /\ pc = "save_info"
    /\ IF call.eval_key # None
       THEN /\ evaluations' = Some(EvalInfo)
            /\ oplog' = Append(oplog, "save_evaluation_info")
       ELSE UNCHANGED <<evaluations, oplog>>
    /\ pc' = "returned"
    /\ UNCHANGED <<samples, call, config, ypred, confs, correct, warnings,
                   results, eval_field, error, metrics, report>>

\* ClassificationResults.metrics() on the returned object
Metrics ==
    /\ pc = "returned"
    /\ metrics = NoneOpt
    /\ Len(results[1].ytrue) > 0
    /\ \E classes \in QueryClasses :
          LET labels == GetLabels(results[1], classes)
          IN metrics' = Some(
               [labels |-> labels,
                accuracy |-> AccuracyScore(results[1].ytrue, results[1].ypred),
                micro |-> MicroCounts(results[1].ytrue, results[1].ypred,
                                      labels)])
    /\ UNCHANGED <<samples, call, pc, config, ypred, confs, correct, warnings,
                   results, eval_field, evaluations, oplog, error, report>>

\* report() keeping the classes argument as the class list of the object
ReportStoringClasses ==
    /\ pc = "returned"
    /\ report = NoneOpt
    /\ Len(results[1].ytrue) > 0
    /\ \E classes \in QueryClasses :
          LET labels == GetLabels(results[1], classes)
          IN /\ report' = Some(ClassificationReport(
                                  results[1].ytrue, results[1].ypred, labels))
             /\ results' = Some([results[1] EXCEPT !.classes = labels])
    /\ UNCHANGED <<samples, call, pc, config, ypred, confs, correct, warnings,
                   eval_field, evaluations, oplog, error, metrics>>

\* ClassificationResults.report() on the returned object
Report ==
    /\ pc = "returned"
    /\ report = NoneOpt
    /\ Len(results[1].ytrue) > 0
    /\ \E classes \in QueryClasses :
          report' = Some(ClassificationReport(
                            results[1].ytrue, results[1].ypred,
                            GetLabels(results[1], classes)))
    /\ UNCHANGED <<samples, call, pc, config, ypred, confs, correct, warnings,
                   results, eval_field, evaluations, oplog, error, metrics>>

Next ==
    \/ ParseConfigStep
    \/ SimpleEvaluateSamples
    \/ BinaryEvaluateSamples
    \/ TopKEvaluateSamples
    \/ TopKSample
    \/ TopKFinish
    \/ SaveInfoAndReturn
    \/ Metrics

Spec == Init /\ [][Next]_vars

\* The calls whose results object is then queried by report() as well as
\* metrics(): every collection under every method, without a run key.
QueryInputs ==
    Collections \X {c \in CallArgs(MethodArgs) : c.eval_key = None}

InitQueries ==
    /\ \E inp \in QueryInputs : samples = inp[1] /\ call = inp[2]
    /\ pc = "parse_config"
    /\ config = NoneOpt
    /\ ypred = <<>>
    /\ confs = <<>>
    /\ correct = <<>>
    /\ warnings = 0
    /\ results = NoneOpt
    /\ eval_field = NoneOpt
    /\ evaluations = NoneOpt
    /\ oplog = <<>>
    /\ error = NoneOpt
    /\ metrics = NoneOpt
    /\ report = NoneOpt

NextQueries ==
    \/ Next
    \/ Report

SpecQueries == InitQueries /\ [][NextQueries]_vars

\* ------------------------------------------------------------------ claims
Parsed == pc # "parse_config"
Evaluated == pc \in {"save_info", "returned"}
MethodIs(m) == config # NoneOpt /\ config[1].method = m
UnsupportedMethod ==
    Some([type |-> "ValueError", msg |-> "Unsupported evaluation method"])
NoNoneLabels == \A i \in 1..Len(samples) :
                    samples[i].gt # None /\ samples[i].pred # None

\* C1: once _parse_config has run, either exactly one config object was
\* returned or the unsupported-method ValueError was raised; an explicit
\* config is returned as given whatever the method and keywords, otherwise
\* None and "simple" give the simple config, "binary" the binary one,
\* "top-k" the top-k one with k = 5 unless a k is passed, and any other
\* method raises.
ParseConfigContract ==
    Parsed =>
        /\ (config # NoneOpt) # (error = UnsupportedMethod)
        /\ IF call.config # NoneOpt THEN config = call.config
           ELSE IF call.method \in {None, "simple"}
                THEN config = Some([method |-> "simple"])
           ELSE IF call.method = "binary"
                THEN config = Some([method |-> "binary"])
           ELSE IF call.method = "top-k"
                THEN config = Some([method |-> "top-k",
                                    k |-> IF call.kwargs = NoneOpt THEN 5
                                          ELSE call.kwargs[1]])
           ELSE config = NoneOpt /\ pc = "raised"

ParseConfigWitness ==
    /\ pc = "evaluate_samples"
    /\ call.config = Some([method |-> "top-k", k |-> 2])
    /\ call.method = "bogus"
    /\ call.kwargs = Some(1)
    /\ config = call.config

\* C2: after a simple evaluation with a run key of a collection without
\* missing labels, the flag stored for sample i is true iff its two labels
\* are equal, and the accuracy reported by metrics() is the number of true
\* flags over the number of samples.
SimpleFlagsAndAccuracy ==
    (Evaluated /\ MethodIs("simple") /\ call.eval_key # None /\ NoNoneLabels) =>
        /\ eval_field # NoneOpt
        /\ Len(eval_field[1].values) = Len(samples)
        /\ \A i \in 1..Len(samples) :
              eval_field[1].values[i] = Some(TRUE)
                  <=> samples[i].gt = samples[i].pred
        /\ \A i \in 1..Len(samples) :
              eval_field[1].values[i] = Some(FALSE)
                  <=> samples[i].gt # samples[i].pred
        /\ metrics # NoneOpt =>
              /\ metrics[1].accuracy.total = Len(samples)
              /\ metrics[1].accuracy.correct =
                    Cardinality({i \in 1..Len(samples) :
                                    eval_field[1].values[i] = Some(TRUE)})

SimpleFlagsWitness ==
    /\ MethodIs("simple")
    /\ metrics # NoneOpt
    /\ Values("gt") = <<"cat", "dog">>
    /\ Values("pred") = <<"cat", "cat">>
    /\ eval_field = Some([ftype |-> "BooleanField",
                          values |-> <<Some(TRUE), Some(FALSE)>>])
    /\ metrics[1].accuracy = [correct |-> 1, total |-> 2]

\* C3: after a binary evaluation with classes (neg, pos) and a run key,
\* every sample carries exactly one of TP, FN, TN, FP, decided by its truth
\* and prediction with None read as neg, and the code agrees with the labels
\* of the returned results object.
BinaryTagging ==
    (Evaluated /\ MethodIs("binary") /\ call.eval_key # None) =>
        LET neg == call.classes[1][1]
            pos == call.classes[1][2]
            AsNeg(l) == IF l = None THEN neg ELSE l
        IN /\ eval_field # NoneOpt
           /\ Len(eval_field[1].values) = Len(samples)
           /\ \A i \in 1..Len(samples) :
                LET tag == eval_field[1].values[i]
                    g == AsNeg(samples[i].gt)
                    p == AsNeg(samples[i].pred)
                IN /\ tag \in {"TP", "FN", "TN", "FP"}
                   /\ (g = pos /\ p = pos) => tag = "TP"
                   /\ (g = pos /\ p = neg) => tag = "FN"
                   /\ (g = neg /\ p = neg) => tag = "TN"
                   /\ (g = neg /\ p = pos) => tag = "FP"
                   /\ results[1].ytrue[i] = g
                   /\ results[1].ypred[i] = p
                   /\ tag \in {"TP", "FN"} <=> results[1].ytrue[i] = pos
                   /\ tag \in {"TP", "FP"} <=> results[1].ypred[i] = pos

BinaryTaggingWitness ==
    /\ pc = "returned"
    /\ MethodIs("binary")
    /\ call.classes = Some(<<"cat", "dog">>)
    /\ Values("gt") = <<None, "dog">>
    /\ Values("pred") = <<"dog", None>>
    /\ eval_field # NoneOpt
    /\ eval_field[1].values = <<"FP", "FN">>
    /\ results[1].ytrue = <<"cat", "dog">>
    /\ results[1].ypred = <<"dog", "cat">>

HasLogits(i) == samples[i].logits # NoneOpt
NoLogitsUpTo(n) == {i \in 1..n : ~HasLogits(i)}
ClassListMissing ==
    Some([type |-> "ValueError", msg |-> "You must provide the list of classes"])
ClassPairMissing ==
    Some([type |-> "ValueError",
          msg |-> "You must provide the (neg_label, pos_label) labels"])

\* C4: a top-k evaluation whose k is at least the number of classes
\* completes and marks every sample correct.  Stated for collections in
\* which every sample has logits, one per class, and a truth label of the
\* class list.
TopKLargeKAllCorrect ==
    (/\ MethodIs("top-k")
     /\ call.classes # NoneOpt
     /\ config[1].k >= Len(call.classes[1])
     /\ \A i \in 1..Len(samples) :
           /\ HasLogits(i)
           /\ Len(samples[i].logits[1]) = Len(call.classes[1])
           /\ samples[i].gt \in Range(call.classes[1])) =>
        /\ pc # "raised"
        /\ \A i \in 1..Len(correct) : correct[i] = Some(TRUE)

\* C5: in a top-k evaluation a sample without logits never raises; its
\* prediction, confidence and flag become None, one warning is issued for
\* it, and in the returned results its prediction is the missing sentinel.
TopKAbsentLogits ==
    MethodIs("top-k") =>
        /\ (pc = "raised" /\ error # ClassListMissing) =>
              (Len(confs) < Len(samples) /\ HasLogits(Len(confs) + 1))
        /\ \A i \in NoLogitsUpTo(Len(confs)) :
              /\ ypred[i] = None
              /\ confs[i] = NoneOpt
              /\ correct[i] = NoneOpt
        /\ warnings = Cardinality(NoLogitsUpTo(Len(confs)))
        /\ results # NoneOpt =>
              /\ warnings = Cardinality(NoLogitsUpTo(Len(samples)))
              /\ \A i \in NoLogitsUpTo(Len(samples)) :
                    /\ results[1].ypred[i] = call.missing
                    /\ results[1].confs[i] = NoneOpt
                    /\ eval_field # NoneOpt =>
                          eval_field[1].values[i] = NoneOpt

TopKAbsentLogitsWitness ==
    /\ pc = "returned"
    /\ MethodIs("top-k")
    /\ Len(samples) = 2
    /\ NoLogitsUpTo(2) = {1, 2}
    /\ samples[1].pred = "dog"
    /\ samples[2].gt = None
    /\ warnings = 2
    /\ results[1].ypred = <<"none", "none">>
    /\ eval_field = Some([ftype |-> "BooleanField",
                          values |-> <<NoneOpt, NoneOpt>>])

\* C6: top-k without a class list, binary without exactly two classes and
\* an unsupported method name each raise ValueError with nothing read from
\* or written to the collection, no results and no evaluation info.
InvalidArgumentsLeaveNothing ==
    /\ (Parsed /\ call.config = NoneOpt
            /\ call.method \notin {None, "simple", "binary", "top-k"}) =>
          error = UnsupportedMethod
    /\ (MethodIs("top-k") /\ pc # "evaluate_samples"
            /\ call.classes = NoneOpt) =>
          error = ClassListMissing
    /\ (MethodIs("binary") /\ pc # "evaluate_samples"
            /\ (call.classes = NoneOpt \/ Len(call.classes[1]) # 2)) =>
          error = ClassPairMissing
    /\ error \in {UnsupportedMethod, ClassListMissing, ClassPairMissing} =>
          /\ pc = "raised"
          /\ oplog = <<>>
          /\ eval_field = NoneOpt
          /\ evaluations = NoneOpt
          /\ results = NoneOpt

InvalidArgumentsWitness ==
    /\ pc = "raised"
    /\ call.eval_key = EvalKey
    /\ MethodIs("binary")
    /\ call.classes = Some(<<"cat">>)
    /\ Len(samples) = 2
    /\ error = ClassPairMissing

Writes == {"add_field", "set_field", "set_values", "save_evaluation_info"}
Position(op) == CHOOSE i \in 1..Len(oplog) : oplog[i] = op

\* C7: without a run key the call never writes a per-sample field nor saves
\* evaluation info; with a run key a call that returns has written one
\* outcome per sample under the key and then saved the info (key, prediction
\* field, ground truth field, config), the info never being there before
\* the field.
RunKeyEffect ==
    /\ call.eval_key = None =>
          /\ eval_field = NoneOpt
          /\ evaluations = NoneOpt
          /\ Range(oplog) \cap Writes = {}
    /\ (call.eval_key # None /\ pc = "returned") =>
          /\ eval_field # NoneOpt
          /\ Len(eval_field[1].values) = Len(samples)
          /\ evaluations = Some([eval_key |-> call.eval_key,
                                 pred_field |-> PredField,
                                 gt_field |-> GtField,
                                 config |-> config[1]])
          /\ \E setter \in {"set_field", "set_values"} :
                /\ setter \in Range(oplog)
                /\ Position(setter) < Position("save_evaluation_info")
    /\ evaluations # NoneOpt => eval_field # NoneOpt
    /\ (call.eval_key # None /\ pc = "save_info") =>
          (eval_field # NoneOpt /\ evaluations = NoneOpt)

RunKeyEffectWitness ==
    /\ pc = "returned"
    /\ MethodIs("top-k")
    /\ call.eval_key = EvalKey
    /\ Len(samples) = 2
    /\ eval_field = Some([ftype |-> "BooleanField",
                          values |-> <<Some(TRUE), NoneOpt>>])
    /\ evaluations # NoneOpt
    /\ oplog = <<"aggregate", "add_field", "set_values",
                 "save_evaluation_info">>

\* The arguments _parse_labels was called with for the results object.
LabelsTrue == Values("gt")
LabelsPred == IF MethodIs("top-k") THEN ypred ELSE Values("pred")
LabelsClasses == IF MethodIs("binary") THEN call.classes[1]
                 ELSE IF call.classes = NoneOpt
                 THEN SortedList((Range(LabelsTrue) \cup Range(LabelsPred))
                                     \ {None})
                 ELSE call.classes[1]
FoundNone == None \in Range(LabelsTrue) \cup Range(LabelsPred)
SentinelAppended ==
    /\ Len(results[1].classes) = Len(LabelsClasses) + 1
    /\ results[1].classes = Append(LabelsClasses, results[1].missing)

\* C8 as stated: the missing sentinel is appended to the class list if and
\* only if one of the two label arrays contained a None.
SentinelAppendedIffNone ==
    results # NoneOpt => (SentinelAppended <=> FoundNone)

\* C8 amended: the missing sentinel is appended to the class list if and
\* only if one of the two label arrays contained a None and the sentinel
\* is not already in the class list; otherwise the class list is unchanged.
SentinelAppendedIffNoneAndAbsent ==
    results # NoneOpt =>
        /\ SentinelAppended <=>
              (FoundNone /\ results[1].missing \notin Range(LabelsClasses))
        /\ ~SentinelAppended => results[1].classes = LabelsClasses

SentinelNotAppendedWitness ==
    /\ results # NoneOpt
    /\ MethodIs("simple")
    /\ call.classes = Some(<<"cat", "dog">>)
    /\ call.missing = "cat"
    /\ Values("pred") = <<"dog", None>>
    /\ results[1].classes = <<"cat", "dog">>
    /\ results[1].ypred = <<"dog", "cat">>

Observed == {samples[i].gt : i \in 1..Len(samples)}
                \cup {samples[i].pred : i \in 1..Len(samples)}
IsSorted(seq) == \A i \in 1..Len(seq) : \A j \in 1..Len(seq) :
                    i < j => Rank(seq[i]) < Rank(seq[j])
IsSortedUnion(seq) == IsSorted(seq) /\ Range(seq) = Observed \ {None}

\* C9 as stated: with classes=None the class list of the results is sorted
\* and is the sorted union of the non-null observed labels, also when some
\* label is None.
ObservedClassesSortedUnion ==
    (results # NoneOpt /\ call.classes = NoneOpt) =>
        IsSortedUnion(results[1].classes)

\* C9 amended: with classes=None the class list is the sorted union of the
\* non-null observed labels when no label is None; when some label is None
\* it is that sorted union followed by the missing sentinel, unless the
\* sentinel is itself an observed label.
ObservedClassesSortedUnionThenSentinel ==
    (results # NoneOpt /\ call.classes = NoneOpt) =>
        LET cl == results[1].classes
        IN IF None \in Observed /\ call.missing \notin Observed
           THEN /\ Len(cl) >= 1
                /\ cl[Len(cl)] = call.missing
                /\ IsSortedUnion(SubSeq(cl, 1, Len(cl) - 1))
           ELSE IsSortedUnion(cl)

ObservedClassesWitness ==
    /\ results # NoneOpt
    /\ call.classes = NoneOpt
    /\ call.missing = "cat"
    /\ Values("gt") = <<"dog", None>>
    /\ Values("pred") = <<"dog", "dog">>
    /\ results[1].classes = <<"dog", "cat">>

\* Whether the logit at index t is surely among, or surely not among, the
\* k largest of logits whichever way equal logits are ordered.
SurelyInTopK(logits, t, k) ==
    Cardinality({j \in 1..Len(logits) : j # t /\ logits[j] >= logits[t]}) < k
SurelyNotInTopK(logits, t, k) ==
    Cardinality({j \in 1..Len(logits) : logits[j] > logits[t]}) >= k
TruthIndex(i) == TargetsMap(call.classes[1])[samples[i].gt]
TruthSurelyInTopK(i) ==
    SurelyInTopK(samples[i].logits[1], TruthIndex(i), config[1].k)
TruthSurelyNotInTopK(i) ==
    SurelyNotInTopK(samples[i].logits[1], TruthIndex(i), config[1].k)

\* C10 as stated: in the results of a top-k evaluation, a sample with
\* logits whose truth logit is among the k largest is marked correct with
\* the truth label as prediction, any other is marked incorrect with its
\* stored predicted label, and the flag is True iff prediction and truth
\* are equal.  Stated for logits with one entry per class.
TopKFlagIffPredictionIsTruth ==
    (MethodIs("top-k") /\ results # NoneOpt) =>
        \A i \in 1..Len(samples) :
          (HasLogits(i) /\ Len(samples[i].logits[1]) = Len(call.classes[1])) =>
            /\ TruthSurelyInTopK(i) =>
                  (correct[i] = Some(TRUE)
                      /\ results[1].ypred[i] = samples[i].gt)
            /\ TruthSurelyNotInTopK(i) =>
                  (correct[i] = Some(FALSE)
                      /\ results[1].ypred[i] = samples[i].pred)
            /\ correct[i] = Some(TRUE)
                  <=> results[1].ypred[i] = results[1].ytrue[i]

\* C10 amended: a sample with logits is marked correct when its truth logit
\* is surely among the k largest and incorrect when it surely is not; a
\* correct sample has the truth label as prediction and an incorrect one
\* its stored predicted label, so a True flag implies that prediction and
\* truth are equal, and they are equal under a False flag only where the
\* stored predicted label is the truth label.
TopKFlagImpliesPredictionIsTruth ==
    (MethodIs("top-k") /\ results # NoneOpt) =>
        \A i \in 1..Len(samples) : HasLogits(i) =>
            /\ TruthSurelyInTopK(i) => correct[i] = Some(TRUE)
            /\ TruthSurelyNotInTopK(i) => correct[i] = Some(FALSE)
            /\ correct[i] \in {Some(TRUE), Some(FALSE)}
            /\ correct[i] = Some(TRUE) =>
                  /\ results[1].ypred[i] = samples[i].gt
                  /\ results[1].ypred[i] = results[1].ytrue[i]
            /\ correct[i] = Some(FALSE) =>
                  results[1].ypred[i] = samples[i].pred
            /\ (correct[i] = Some(FALSE)
                    /\ results[1].ypred[i] = results[1].ytrue[i]) =>
                  samples[i].pred = samples[i].gt

TopKFalseFlagEqualLabelsWitness ==
    /\ pc = "returned"
    /\ MethodIs("top-k")
    /\ config[1].k = 1
    /\ call.classes = Some(<<"cat", "dog">>)
    /\ Len(samples) = 2
    /\ samples[1] = Sample("cat", "cat", Some(40), Some(<<0, 1>>))
    /\ samples[2] = Sample("dog", "cat", Some(40), Some(<<0, 1>>))
    /\ correct = <<Some(FALSE), Some(TRUE)>>
    /\ results[1].ypred = <<"cat", "dog">>
    /\ results[1].ytrue = <<"cat", "dog">>

\* C11: the scores of a binary results object have one entry per sample, in
\* order; with conf the stored confidence, or 0 when it is absent, the score
\* of a sample is conf when its prediction is the positive label and
\* 1 - conf otherwise, a missing prediction counting as the negative label.
BinaryScores ==
    (MethodIs("binary") /\ results # NoneOpt) =>
        LET pos == call.classes[1][2]
            neg == call.classes[1][1]
        IN /\ results[1].pos_label = pos
           /\ Len(results[1].scores) = Len(samples)
           /\ \A i \in 1..Len(samples) :
                LET conf == IF samples[i].conf = NoneOpt THEN 0
                            ELSE samples[i].conf[1]
                    score == results[1].scores[i]
                IN /\ samples[i].pred = pos => score = conf
                   /\ samples[i].pred # pos => score = 100 - conf
                   /\ samples[i].pred = None =>
                         (results[1].ypred[i] = neg /\ score = 100 - conf)
                   /\ score = IF results[1].ypred[i] = pos THEN conf
                              ELSE 100 - conf

BinaryScoresWitness ==
    /\ pc = "returned"
    /\ MethodIs("binary")
    /\ call.classes = Some(<<"cat", "dog">>)
    /\ samples = <<Sample("dog", None, NoneOpt, NoneOpt),
                   Sample("cat", "dog", Some(40), Some(<<0, 1>>))>>
    /\ results[1].ypred = <<"cat", "dog">>
    /\ results[1].scores = <<100, 40>>

\* C12: in every results object the arrays ytrue, ypred and confs have one
\* entry per sample of the collection, in its order; ytrue and ypred hold no
\* None, each None of the arrays given to the constructor being replaced by
\* the missing sentinel and every other label kept in place; and the arrays
\* and the class list are the same after report() and metrics(), whatever
\* their classes argument, as they were when the object was built.
ResultsArraysAlignedAndStable ==
    results # NoneOpt =>
        LET r == results[1]
        IN /\ Len(r.ytrue) = Len(samples)
           /\ Len(r.ypred) = Len(samples)
           /\ Len(r.confs) = Len(samples)
           /\ r.missing = IF MethodIs("binary") THEN call.classes[1][1]
                          ELSE call.missing
           /\ \A i \in 1..Len(samples) :
                /\ r.ytrue[i] # None
                /\ r.ypred[i] # None
                /\ r.ytrue[i] = IF samples[i].gt = None THEN r.missing
                                ELSE samples[i].gt
                /\ IF MethodIs("top-k")
                   THEN /\ r.ypred[i] = IF ypred[i] = None THEN r.missing
                                        ELSE ypred[i]
                        /\ r.ypred[i] \in {samples[i].pred, samples[i].gt,
                                           r.missing}
                        /\ r.confs[i] = confs[i]
                   ELSE /\ r.ypred[i] = IF samples[i].pred = None
                                        THEN r.missing ELSE samples[i].pred
                        /\ r.confs[i] = samples[i].conf
           /\ r.classes = IF FoundNone /\ r.missing \notin Range(LabelsClasses)
                          THEN Append(LabelsClasses, r.missing)
                          ELSE LabelsClasses

ResultsStableWitness ==
    /\ pc = "returned"
    /\ MethodIs("simple")
    /\ call.classes = NoneOpt
    /\ Values("gt") = <<"dog", "cat">>
    /\ Values("pred") = <<None, "cat">>
    /\ metrics # NoneOpt
    /\ metrics[1].labels = <<"cat">>
    /\ report # NoneOpt
    /\ Len(report[1]) = 1
    /\ report[1][1].label = "cat"
    /\ results[1].ytrue = <<"dog", "cat">>
    /\ results[1].ypred = <<"none", "cat">>
    /\ results[1].classes = <<"cat", "dog", "none">>

====
